---- MODULE Spec2Model ----
(***************************************************************************)
(* NDVI derivation and classification pipeline of app.py.                  *)
(*                                                                         *)
(* The script builds, top to bottom, the boundary selection (l.33-34), the *)
(* filtered Sentinel-2 collection (l.39-44), the median NDVI composite     *)
(* (l.49-53), the four class masks (l.58-61) and, in the classification    *)
(* branch of the map selector (l.96), the sampled and labelled points      *)
(* (l.109-133).  Streamlit runs the script again on every interaction, so  *)
(* the model lets the script run more than once over the same datasets.    *)
(*                                                                         *)
(* Numbers.  NDVI values are held as integers in units of 1/20: the        *)
(* thresholds 0.2, 0.4, 0.6 are 4, 8, 12, per-scene values are multiples   *)
(* of 0.1 (even), and the mean of the two middle values of a median is     *)
(* then an integer as well.  Band reflectances are integers in units of    *)
(* 0.05.                                                                   *)
(***************************************************************************)
EXTENDS Integers, Sequences, FiniteSets

\* Largest number of scenes the imagery source holds.
MaxScenes == 2
\* Largest number of times the script is run.
MaxRuns == 2

\* One NDVI unit in grid steps (1.0 = 20 steps of 0.05).
Scale == 2 * 10
\* The literal n/10 of the source (0.6 is Tenths(6)) in grid steps.
Tenths(n) == 2 * n

\* Pixels of the raster at the sampling scale.
Cells == {"c1", "c2"}

\* A pixel is a mask bit and a value; a masked (no-data) pixel has value 0.
Masked == [m |-> FALSE, v |-> 0]
Px(x) == [m |-> TRUE, v |-> x]
\* An ee.Image with the single band NDVI, or with no band at all.
Image(f) == [band |-> TRUE, px |-> f]
Bandless == [band |-> FALSE, px |-> [c \in Cells |-> Masked]]

VARIABLES
  states,       \* the boundary dataset FAO/GAUL/2015/level1: a sequence of features
  source,       \* the imagery source COPERNICUS/S2_SR: a sequence of scenes
  platform,     \* what the Earth Engine service does where the script does not decide
  map_option,   \* the selectbox value of this run
  run,          \* the number of this run of the script
  pc,           \* the statement the script is at
  karnataka, collection, ndvi_image,
  dense, moderate, sparse, nonveg,
  points,
  failure,      \* the exception that ended this run, or "none"
  prev          \* the outputs of the run before this one

vars == <<states, source, platform, map_option, run, pc, karnataka, collection,
          ndvi_image, dense, moderate, sparse, nonveg, points, failure, prev>>

inputs == <<states, source, platform>>

MapOptions == {"NDVI Continuous Heatmap", "NDVI Vegetation Classification"}

(***************************************************************************)
(* Earth Engine operations the script calls.                               *)
(***************************************************************************)

\* Geometry of a feature collection: the union of its features' geometries.
Geometry(fc) == UNION {fc[i].geom : i \in 1..Len(fc)}

\* states.filter(ee.Filter.eq("ADM1_NAME", name))
FilterEqFirst(fc, name) ==
  LET hit == SelectSeq(fc, LAMBDA f : f.name = name)
  IN IF hit = <<>> THEN <<>> ELSE <<hit[1]>>
FilterEq(fc, name) == SelectSeq(fc, LAMBDA f : f.name = name)

\* .filterBounds(region): the scenes whose footprint intersects the region.
filterBounds(coll, region) ==
  SelectSeq(coll, LAMBDA s : s.footprint \cap Geometry(region) # {})

\* .filterDate(start, end): start inclusive, end exclusive.
filterDate(coll, start, end) ==
  SelectSeq(coll, LAMBDA s : start <= s.t /\ s.t < end)

\* .filter(ee.Filter.lt("CLOUDY_PIXEL_PERCENTAGE", k))
filterCloudLte(coll, k) == SelectSeq(coll, LAMBDA s : s.cloud <= k)
filterCloudLt(coll, k) == SelectSeq(coll, LAMBDA s : s.cloud < k)

\* Days since 2023-01-01 of the two dates of filterDate.
DateStart == 0
DateEnd == 364
\* The cloud-cover bound of the quality filter.
CloudMax == 20

\* image.normalizedDifference([b8, b4]) at one pixel.  A negative input masks
\* the pixel.  What the service returns where b8 + b4 = 0 is not decided by
\* the script: platform.zeroSumMasked says whether it is masked or 0.
normalizedDifference(b8, b4) ==
  IF b8 < 0 \/ b4 < 0 THEN Masked
  ELSE IF b8 + b4 = 0
       THEN (IF platform.zeroSumMasked THEN Masked ELSE Px(0))
       ELSE Px(((b8 - b4) * Scale) \div (b8 + b4))

\* add_ndvi(image), then .select("NDVI"): the NDVI band of one scene.
add_ndvi(image) ==
  [c \in Cells |->
     IF c \in image.valid THEN normalizedDifference(image.B8[c], image.B4[c])
     ELSE Masked]

RECURSIVE Insert(_, _)
Insert(x, s) ==
  IF s = <<>> THEN <<x>>
  ELSE IF x <= Head(s) THEN <<x>> \o s
       ELSE <<Head(s)>> \o Insert(x, Tail(s))

RECURSIVE Sorted(_)
Sorted(s) == IF s = <<>> THEN <<>> ELSE Insert(Head(s), Sorted(Tail(s)))

\* ee.Reducer.median over the unmasked inputs: the middle value, or the mean
\* of the two middle values of an even count.
Median(s) ==
  LET t == Sorted(s)
      n == Len(t)
  IN IF n % 2 = 1 THEN t[(n + 1) \div 2]
     ELSE (t[n \div 2] + t[n \div 2 + 1]) \div 2

\* The unmasked values of the band sequence at cell c, in collection order.
RECURSIVE Defined(_, _)
Defined(bands, c) ==
  IF bands = <<>> THEN <<>>
  ELSE (IF Head(bands)[c].m THEN <<Head(bands)[c].v>> ELSE <<>>)
       \o Defined(Tail(bands), c)

\* collection.map(add_ndvi).select("NDVI").median(): the median of an empty
\* collection is an image with no bands.
medianMasked(coll) ==
  Image([c \in Cells |->
           LET d == Defined([i \in 1..Len(coll) |-> add_ndvi(coll[i])], c)
           IN IF d = <<>> THEN Masked ELSE Px(Median(d))])
median(coll) ==
  IF coll = <<>> THEN Bandless
  ELSE Image([c \in Cells |->
                LET d == Defined([i \in 1..Len(coll) |-> add_ndvi(coll[i])], c)
                IN IF d = <<>> THEN Masked ELSE Px(Median(d))])

\* image.clip(region): pixels outside the region are masked.
clip(img, region) ==
  IF ~img.band THEN img
  ELSE Image([c \in Cells |->
                IF c \in Geometry(region) THEN img.px[c] ELSE Masked])

\* image.gt(k), image.lte(k): 1 or 0 at an unmasked pixel, masked elsewhere.
gte(img, k) ==
  IF ~img.band THEN img
  ELSE Image([c \in Cells |->
                IF img.px[c].m THEN Px(IF img.px[c].v >= k THEN 1 ELSE 0)
                ELSE Masked])
gt(img, k) ==
  IF ~img.band THEN img
  ELSE Image([c \in Cells |->
                IF img.px[c].m THEN Px(IF img.px[c].v > k THEN 1 ELSE 0)
                ELSE Masked])
lt(img, k) ==
  IF ~img.band THEN img
  ELSE Image([c \in Cells |->
                IF img.px[c].m THEN Px(IF img.px[c].v < k THEN 1 ELSE 0)
                ELSE Masked])
lte(img, k) ==
  IF ~img.band THEN img
  ELSE Image([c \in Cells |->
                IF img.px[c].m THEN Px(IF img.px[c].v <= k THEN 1 ELSE 0)
                ELSE Masked])

\* a.And(b): unmasked where both are, 1 where both are non-zero.
And(a, b) ==
  IF ~a.band \/ ~b.band THEN Bandless
  ELSE Image([c \in Cells |->
                IF a.px[c].m /\ b.px[c].m
                THEN Px(IF a.px[c].v # 0 /\ b.px[c].v # 0 THEN 1 ELSE 0)
                ELSE Masked])

(***************************************************************************)
(* The expressions of the script.                                          *)
(***************************************************************************)

DenseMaskGte(img) == gte(img, Tenths(6))
DenseMask(img) == gt(img, Tenths(6))
ModerateMaskGte(img) == And(gte(img, Tenths(4)), lte(img, Tenths(6)))
ModerateMask(img) == And(gt(img, Tenths(4)), lte(img, Tenths(6)))
SparseMask(img) == And(gt(img, Tenths(2)), lte(img, Tenths(4)))
NonvegMaskLt(img) == lt(img, Tenths(2))
NonvegMask(img) == lte(img, Tenths(2))

\* classify_point(f): the nested ee.Algorithms.If over f.get("NDVI").
classify_pointGte(f) ==
  LET v == f.NDVI
  IN [cell |-> f.cell, NDVI |-> f.NDVI,
      Class |-> IF v > Tenths(6) THEN "Dense"
                ELSE IF v >= Tenths(4) THEN "Moderate"
                ELSE IF v > Tenths(2) THEN "Sparse"
                ELSE "Built-up"]
classify_point(f) ==
  LET v == f.NDVI
  IN [cell |-> f.cell, NDVI |-> f.NDVI,
      Class |-> IF v > Tenths(6) THEN "Dense"
                ELSE IF v > Tenths(4) THEN "Moderate"
                ELSE IF v > Tenths(2) THEN "Sparse"
                ELSE "Built-up"]

\* The pixels ndvi_image.sample draws.  No seed is passed, so the default
\* seed is used and the draw is a function of the arguments alone: the
\* service's draw for them is platform.draws.  numPixels=300 is more than the
\* raster of the model has cells, so it does not restrict the draw here.
SampleDrawsUnseeded == SUBSET Cells
SampleDraws == {platform.draws}

\* ndvi_image.sample(region, scale, numPixels, geometries=True) for the draw
\* d: one feature per drawn pixel of the region that is unmasked (dropNulls).
sample(img, region, d) ==
  {[cell |-> c, NDVI |-> img.px[c].v] :
     c \in {x \in d \cap Geometry(region) : img.px[x].m}}

(***************************************************************************)
(* The script, statement by statement.                                     *)
(***************************************************************************)

NoOutput == [done |-> FALSE, map_option |-> "", ndvi_image |-> Bandless,
             points |-> {}, failure |-> "none"]

\* The derived objects before the script has built them.
Fresh ==
  /\ pc = "boundary"
  /\ karnataka = <<>>
  /\ collection = <<>>
  /\ ndvi_image = Bandless
  /\ dense = Bandless /\ moderate = Bandless
  /\ sparse = Bandless /\ nonveg = Bandless
  /\ points = {}
  /\ failure = "none"

\* l.33-34
LoadBoundary ==
  /\ pc = "boundary"
  /\ karnataka' = FilterEq(states, "Karnataka")
  /\ pc' = "collect"
  /\ UNCHANGED <<inputs, map_option, run, collection, ndvi_image, dense,
                 moderate, sparse, nonveg, points, failure, prev>>

\* l.39-44
LoadCollection ==
  /\ pc = "collect"
  /\ collection' =
       filterCloudLt(filterDate(filterBounds(source, karnataka),
                                DateStart, DateEnd), CloudMax)
  /\ pc' = "ndvi"
  /\ UNCHANGED <<inputs, map_option, run, karnataka, ndvi_image, dense,
                 moderate, sparse, nonveg, points, failure, prev>>

\* l.49-53
ComputeNdvi ==
  /\ pc = "ndvi"
  /\ ndvi_image' = clip(median(collection), karnataka)
  /\ pc' = "classify"
  /\ UNCHANGED <<inputs, map_option, run, karnataka, collection, dense,
                 moderate, sparse, nonveg, points, failure, prev>>

\* l.58-61
Classify ==
  /\ pc = "classify"
  /\ dense' = DenseMask(ndvi_image)
  /\ moderate' = ModerateMask(ndvi_image)
  /\ sparse' = SparseMask(ndvi_image)
  /\ nonveg' = NonvegMask(ndvi_image)
  /\ pc' = "select"
  /\ UNCHANGED <<inputs, map_option, run, karnataka, collection, ndvi_image,
                 points, failure, prev>>

\* What the service does with an image that has no band is not decided by
\* the script.  platform.onBandless is one of: "empty" (the layer draws
\* nothing and sample returns no feature), "renderFails" (Map.addLayer raises)
\* and "sampleFails" (sample raises).  An exception ends the run.
RenderFails == ~ndvi_image.band /\ platform.onBandless = "renderFails"
SampleFails == ~ndvi_image.band /\ platform.onBandless = "sampleFails"

\* l.76-88: the heatmap branch draws ndvi_image and the boundary.
ShowHeatmap ==
  /\ pc = "select"
  /\ map_option = "NDVI Continuous Heatmap"
  /\ failure' = IF RenderFails THEN "EEException" ELSE "none"
  /\ pc' = "end"
  /\ UNCHANGED <<inputs, map_option, run, karnataka, collection, ndvi_image,
                 dense, moderate, sparse, nonveg, points, prev>>

\* l.96-114: the classification branch draws the four masks and the
\* boundary, then samples points.
SamplePoints ==
  /\ pc = "select"
  /\ map_option = "NDVI Vegetation Classification"
  /\ IF RenderFails \/ SampleFails
     THEN /\ failure' = "EEException"
          /\ pc' = "end"
          /\ UNCHANGED points
     ELSE /\ \E d \in SampleDraws :
               points' = sample(ndvi_image, karnataka, d)
          /\ pc' = "label"
          /\ UNCHANGED failure
  /\ UNCHANGED <<inputs, map_option, run, karnataka, collection, ndvi_image,
                 dense, moderate, sparse, nonveg, prev>>

\* l.133-149
ClassifyPoints ==
  /\ pc = "label"
  /\ points' = {classify_point(f) : f \in points}
  /\ pc' = "end"
  /\ UNCHANGED <<inputs, map_option, run, karnataka, collection, ndvi_image,
                 dense, moderate, sparse, nonveg, failure, prev>>

\* A widget interaction: Streamlit runs the script again from the top.
Rerun ==
  /\ pc = "end"
  /\ run < MaxRuns
  /\ run' = run + 1
  /\ prev' = [done |-> TRUE, map_option |-> map_option,
              ndvi_image |-> ndvi_image, points |-> points,
              failure |-> failure]
  /\ map_option' \in MapOptions
  /\ pc' = "boundary"
  /\ karnataka' = <<>>
  /\ collection' = <<>>
  /\ ndvi_image' = Bandless
  /\ dense' = Bandless /\ moderate' = Bandless
  /\ sparse' = Bandless /\ nonveg' = Bandless
  /\ points' = {}
  /\ failure' = "none"
  /\ UNCHANGED inputs

Next ==
  \/ LoadBoundary
  \/ LoadCollection
  \/ ComputeNdvi
  \/ Classify
  \/ ShowHeatmap
  \/ SamplePoints
  \/ ClassifyPoints
  \/ Rerun

(***************************************************************************)
(* Inputs.                                                                 *)
(***************************************************************************)

\* The boundary dataset: feature i covers cell ci; the names vary.
Names == {"Karnataka", "Kerala"}
Datasets ==
  {<<[name |-> a, geom |-> {"c1"}], [name |-> b, geom |-> {"c2"}]>> :
     a \in Names, b \in Names}

\* A scene with the same two band values at every pixel.
Scene(t, cloud, footprint, valid, b8, b4) ==
  [t |-> t, cloud |-> cloud, footprint |-> footprint, valid |-> valid,
   B8 |-> [c \in Cells |-> b8], B4 |-> [c \in Cells |-> b4]]

SeqsUpTo(S, n) == UNION {[1..k -> S] : k \in 0..n}

Platforms(D) ==
  [zeroSumMasked : BOOLEAN,
   onBandless : {"empty", "renderFails", "sampleFails"},
   draws : D]

InitFrom(DS, SC, PF) ==
  /\ states \in DS
  /\ source \in SeqsUpTo(SC, MaxScenes)
  /\ platform \in PF
  /\ map_option \in MapOptions
  /\ run = 1
  /\ prev = NoOutput
  /\ Fresh

\* Scenes of the pipeline runs: one that passes every filter on each
\* footprint, one off each edge of the date range, one at the cloud bound,
\* one with every pixel masked and one with both bands 0.
MetaScenes ==
  {Scene(DateStart, CloudMax - 1, fp, fp, 16, 4) : fp \in {{"c1"}, {"c2"}, Cells}}
  \cup {Scene(t, CloudMax - 1, Cells, Cells, 16, 4) :
          t \in {DateStart - 1, DateEnd - 1, DateEnd}}
  \cup {Scene(DateStart, CloudMax, Cells, Cells, 16, 4),
        Scene(DateStart, CloudMax - 1, Cells, {}, 16, 4),
        Scene(DateStart, CloudMax - 1, Cells, Cells, 0, 0)}

Init ==
  InitFrom(Datasets, MetaScenes, Platforms({{"c1"}, Cells}))

Spec == Init /\ [][Next]_vars

\* Scenes of the index runs: every scene passes the filters; the band pairs
\* give NDVI -1, 0.2 .. 0.7 and 1 at c1 and 0.4, 0.6 at c2, and a zero sum.
ValueScenes ==
  {Scene(DateStart, CloudMax - 1, {"c1"}, {"c1"}, b8, 20 - b8) :
     b8 \in {0, 12, 13, 14, 15, 16, 17, 20}}
  \cup {Scene(DateStart, CloudMax - 1, {"c2"}, {"c2"}, b8, 20 - b8) :
          b8 \in {14, 16}}
  \cup {Scene(DateStart, CloudMax - 1, {"c1"}, {"c1"}, 0, 0)}

InitIndex ==
  InitFrom({d \in Datasets : d[1].name = "Karnataka"}, ValueScenes,
           Platforms({Cells}))

SpecIndex == InitIndex /\ [][Next]_vars

(***************************************************************************)
(* Properties.                                                             *)
(***************************************************************************)

\* The masks have been built in this run.
Classified == pc \in {"select", "label", "end"}
\* The composite has been built in this run.
Composited == pc \in {"classify", "select", "label", "end"}

On(mask, c) == mask.band /\ mask.px[c].m /\ mask.px[c].v = 1

\* The classes whose mask is true at cell c.
TrueMasks(c) ==
  {k \in {"Dense", "Moderate", "Sparse", "Built-up"} :
     \/ k = "Dense" /\ On(dense, c)
     \/ k = "Moderate" /\ On(moderate, c)
     \/ k = "Sparse" /\ On(sparse, c)
     \/ k = "Built-up" /\ On(nonveg, c)}

HasValue(c) == ndvi_image.band /\ ndvi_image.px[c].m
Value(c) == ndvi_image.px[c].v

\* The threshold table of the classifier, in grid steps of 0.05.
TableClass(v) ==
  CASE v > 12 -> "Dense"
    [] 8 < v /\ v <= 12 -> "Moderate"
    [] 4 < v /\ v <= 8 -> "Sparse"
    [] v <= 4 -> "Built-up"

\* C1: every defined index value gets the class of the threshold table, in
\* the four raster masks and in the label classify_point sets.
C1_ThresholdTable ==
  /\ Classified =>
       \A c \in Cells : HasValue(c) =>
         /\ Value(c) \in -20..20
         /\ \A k \in {"Dense", "Moderate", "Sparse", "Built-up"} :
              k \in TrueMasks(c) <=> k = TableClass(Value(c))
  /\ pc = "end" => \A f \in points : f.Class = TableClass(f.NDVI)

\* C1 witness: a finished run with a Sparse pixel at 0.4 in the sparse mask
\* and a labelled point at 0.6.
C1_Witness ==
  /\ pc = "end"
  /\ \E c \in Cells : HasValue(c) /\ Value(c) = 8 /\ On(sparse, c)
  /\ \E f \in points : f.NDVI = 12 /\ f.Class = "Moderate"

\* C2: the four masks partition the defined pixels, exactly one mask is true
\* at each, and no mask is true at a no-data pixel.
C2_Partition ==
  Classified =>
    \A c \in Cells :
      IF HasValue(c) THEN Cardinality(TrueMasks(c)) = 1
      ELSE /\ TrueMasks(c) = {}
           /\ \A mk \in {dense, moderate, sparse, nonveg} : ~mk.px[c].m

\* C2 witness: classified raster with a pixel at the boundary 0.2 and a
\* no-data pixel.
C2_Witness ==
  /\ Classified
  /\ \E c \in Cells : HasValue(c) /\ Value(c) = 4
  /\ \E c \in Cells : ndvi_image.band /\ ~ndvi_image.px[c].m

\* The class of every pixel and of every labelled point that carries v is k.
ClassAt(v, k) ==
  /\ Classified =>
       \A c \in Cells : (HasValue(c) /\ Value(c) = v) => TrueMasks(c) = {k}
  /\ pc = "end" => \A f \in points : f.NDVI = v => f.Class = k

\* C3 as stated: 0.6 is Moderate, 0.4 is Moderate, 0.4 + e is Moderate, 0.2 is
\* Built-up and 0.2 + e is Sparse (e = 0.05).
C3_Original ==
  /\ ClassAt(12, "Moderate")
  /\ ClassAt(8, "Moderate")
  /\ ClassAt(9, "Moderate")
  /\ ClassAt(4, "Built-up")
  /\ ClassAt(5, "Sparse")

\* C3 amended: 0.6 is Moderate, 0.4 is Sparse, 0.4 + e is Moderate, 0.2 is
\* Built-up and 0.2 + e is Sparse, for the masks and for classify_point.
C3_Boundaries ==
  /\ ClassAt(12, "Moderate")
  /\ ClassAt(8, "Sparse")
  /\ ClassAt(9, "Moderate")
  /\ ClassAt(4, "Built-up")
  /\ ClassAt(5, "Sparse")

\* C3 witness: a finished run with a labelled point at 0.4 whose pixel is in
\* the sparse mask, and a labelled point at 0.2.
C3_Witness ==
  /\ pc = "end"
  /\ \E f \in points : f.NDVI = 8 /\ f.Class = "Sparse" /\ On(sparse, f.cell)
  /\ \E f \in points : f.NDVI = 4 /\ f.Class = "Built-up"

\* C4: the label classify_point sets on a point carrying v names the one
\* mask that is true at every pixel with value v.
C4_CrossConsistency ==
  pc = "end" =>
    \A f \in points :
      /\ HasValue(f.cell) /\ Value(f.cell) = f.NDVI
      /\ \A c \in Cells :
           (HasValue(c) /\ Value(c) = f.NDVI) => TrueMasks(c) = {f.Class}

\* C4 witness: labelled points at the thresholds 0.6 and 0.4.
C4_Witness ==
  /\ pc = "end"
  /\ \E f \in points : f.NDVI = 12 /\ f.Class = "Moderate"
  /\ \E f \in points : f.NDVI = 8 /\ f.Class = "Sparse"

\* The number of boundary features named Karnataka.
Matches == Cardinality({i \in 1..Len(states) : states[i].name = "Karnataka"})

Wanted(s) ==
  /\ \E c \in s.footprint : \E i \in 1..Len(karnataka) : c \in karnataka[i].geom
  /\ 0 <= s.t /\ s.t < 364
  /\ s.cloud < 20

\* C7: the collection is exactly the source scenes that meet the region, are
\* dated in [start, end) and have cloud cover strictly below the threshold,
\* and the source is left unchanged.
C7_SceneCollector ==
  /\ [](pc \notin {"boundary", "collect"} =>
          collection = SelectSeq(source, Wanted))
  /\ [][source' = source]_vars

\* C7 witness: the source holds a scene at the cloud bound that meets the
\* region, and the collection kept the other scene only.
C7_Witness ==
  /\ pc \notin {"boundary", "collect"}
  /\ Len(source) = 2 /\ Len(collection) = 1
  /\ \E i \in 1..2 :
       /\ source[i].cloud = 20
       /\ source[i].footprint \cap Geometry(karnataka) # {}
       /\ source[i].t = 0

====
